---- MODULE Spec2Model ----
(***************************************************************************)
(* A model of the searcher package: the TF-IDF indexer (AddIndexes,        *)
(* RemoveIndexes) and the query engine (Query) over the three MongoDB      *)
(* collections held by DBConnector and its shared tokenizer.               *)
(*                                                                         *)
(* float64 values are modelled in fixed point (thousandths) together with  *)
(* the three IEEE special values the code can produce: NaN, +Inf and -Inf. *)
(***************************************************************************)
EXTENDS Integers, Sequences, FiniteSets, TLC

\* ------------------------------------------------------------------ bounds
\* Blog identifiers are 1..MaxBlogs; the post collection holds a subset.
MaxBlogs == 2
\* AddIndexes calls in one behaviour (both collections only ever grow).
MaxCalls == 2
\* Pieces of text in a blog's Content and in a query.
MaxLen == 1

\* ------------------------------------------------------------------ float64
Fin(n) == [k |-> "fin", v |-> n]
NaN == [k |-> "nan", v |-> 0]
PosInf == [k |-> "pinf", v |-> 0]
NegInf == [k |-> "ninf", v |-> 0]
Zero == Fin(0)

IsNaN(a) == a.k = "nan"
IsInf(a) == a.k \in {"pinf", "ninf"}
\* -1, 0 or 1
Sign(a) ==
    CASE a.k = "pinf" -> 1
      [] a.k = "ninf" -> 0 - 1
      [] a.k = "fin" -> (IF a.v > 0 THEN 1 ELSE IF a.v < 0 THEN 0 - 1 ELSE 0)
      [] OTHER -> 0
Abs(n) == IF n < 0 THEN 0 - n ELSE n
\* integer division truncating toward zero, as float rounding is symmetric
TDiv(a, b) == (IF (a < 0) = (b < 0) THEN 1 ELSE 0 - 1) * (Abs(a) \div Abs(b))

FAdd(a, b) ==
    CASE IsNaN(a) \/ IsNaN(b) -> NaN
      [] IsInf(a) /\ IsInf(b) -> (IF a.k = b.k THEN a ELSE NaN)
      [] IsInf(a) -> a
      [] IsInf(b) -> b
      [] OTHER -> Fin(a.v + b.v)

FMul(a, b) ==
    CASE IsNaN(a) \/ IsNaN(b) -> NaN
      [] IsInf(a) \/ IsInf(b) ->
            (IF Sign(a) * Sign(b) = 0 THEN NaN
             ELSE IF Sign(a) * Sign(b) > 0 THEN PosInf ELSE NegInf)
      [] OTHER -> Fin(TDiv(a.v * b.v, 1000))

\* Every divisor the code forms is a magnitude or a norm, so a zero divisor is +0.
FDiv(a, b) ==
    CASE IsNaN(a) \/ IsNaN(b) -> NaN
      [] IsInf(a) /\ IsInf(b) -> NaN
      [] IsInf(a) -> (IF Sign(b) < 0 THEN (IF a.k = "pinf" THEN NegInf ELSE PosInf) ELSE a)
      [] IsInf(b) -> Zero
      [] b.v = 0 -> (IF a.v = 0 THEN NaN ELSE IF a.v > 0 THEN PosInf ELSE NegInf)
      [] OTHER -> Fin(TDiv(a.v * 1000, b.v))

RECURSIVE Bisect(_, _, _)
\* the largest r in lo..hi with r * r <= n
Bisect(n, lo, hi) ==
    IF lo >= hi THEN lo
    ELSE LET mid == (lo + hi + 1) \div 2
         IN  IF mid * mid <= n THEN Bisect(n, mid, hi) ELSE Bisect(n, lo, mid - 1)

FSqrt(a) ==
    CASE IsNaN(a) -> NaN
      [] a.k = "pinf" -> PosInf
      [] a.k = "ninf" -> NaN
      [] a.v < 0 -> NaN
      [] OTHER -> Fin(Bisect(a.v * 1000, 0, 40000))

\* Go's < on float64: false whenever an operand is NaN
FLess(a, b) ==
    CASE IsNaN(a) \/ IsNaN(b) -> FALSE
      [] a.k = "ninf" -> b.k # "ninf"
      [] a.k = "pinf" -> FALSE
      [] b.k = "ninf" -> FALSE
      [] b.k = "pinf" -> TRUE
      [] OTHER -> a.v < b.v

FromInt(n) == Fin(n * 1000)

\* 1000 * ln(n) for n in 1..8
LnTable == <<0, 693, 1099, 1386, 1609, 1792, 1946, 2079>>
\* math.Log(float64(a) / float64(b)) for a >= 0, b >= 1
LogRatio(a, b) == IF a = 0 THEN NegInf ELSE Fin(LnTable[a] - LnTable[b])

\* ------------------------------------------------------------------ text
Words == {"cat", "dog"}
Space == " "
Html == "<b>"
Pieces == Words \cup {Space, Html}
\* a text is a sequence of pieces, each of which the tokenizer yields as one token
Texts(n) == UNION {[1..m -> Pieces] : m \in 0..n}

\* tokenizer.Token: its text and its class
Token(p) == [text |-> p,
             type |-> IF p = Space THEN "space" ELSE IF p = Html THEN "html" ELSE "word"]
GetText(token) == token.text
IsSpace(token) == token.type = "space"
IsHTML(token) == token.type = "html"
\* LongLexto.SetText: the token stream of a text
SetText(text) == [i \in DOMAIN text |-> Token(text[i])]

\* query texts: up to MaxLen + 1 words or tags, separated by spaces
RECURSIVE Spaced(_)
Spaced(n) ==
    IF n = 0 THEN {<<>>}
    ELSE Spaced(n - 1) \cup {<<p>> : p \in Pieces \ {Space}}
         \cup {k \o <<Space, p>> : k \in Spaced(n - 1) \ {<<>>}, p \in Pieces \ {Space}}
Keywords == Spaced(MaxLen + 1)

BlogIds == 1..MaxBlogs
\* the goroutines that may call into one DBConnector at the same time
Callers == {1, 2}
Blogs == [Blog_id : BlogIds,
          Title : {<<w>> : w \in Words},
          Content : Texts(MaxLen),
          Tags : {<<>>} \cup {<<w>> : w \in Words}]

VARIABLES weightTable, termTable, blogTable, tokenizer, driver, indexed, last, call

vars == <<weightTable, termTable, blogTable, tokenizer, driver, indexed, last, call>>

\* ------------------------------------------------------------------ helpers
\* the orders in which Go may range over a map with key set S
Orders(S) == {o \in [1..Cardinality(S) -> S] : \A i, j \in DOMAIN o : i # j => o[i] # o[j]}

RECURSIVE SumOver(_, _)
\* the float64 sum of f[x] over x in S (S finite, f[x] a float64)
SumOver(f, S) ==
    IF S = {} THEN Zero
    ELSE LET x == CHOOSE y \in S : TRUE IN FAdd(f[x], SumOver(f, S \ {x}))

\* ------------------------------------------------------------------ records
\* Term_Weight{} as Go holds it; the zero value has Term = ""
ZeroWeight == [Term |-> "", Total_blogs |-> 0, Idf |-> Zero]
\* A document of the term_weight collection.  A field the document lacks reads
\* as Go's zero value; set holds the embedded document of the "set" key, if any.
WeightDoc(term, total, idf) == [term |-> term, total_blogs |-> total, idf |-> idf, set |-> <<>>]
\* the document bson.M{"set": bson.M{"idf": idf, "total_blogs": total}}
SetDoc(idf, total) ==
    [term |-> "", total_blogs |-> 0, idf |-> Zero,
     set |-> <<[idf |-> idf, total_blogs |-> total]>>]
\* bson decoding of a term_weight document into a Term_Weight
Decode(doc) == [Term |-> doc.term, Total_blogs |-> doc.total_blogs, Idf |-> doc.idf]

\* A caller with no call under way.  Of a call under way, pc is the operation it is
\* to do next and op the method called; text is the text it hands to SetText;
\* blog_id, frequency, norm, totalBlogs, weightRow, idf, key and todo (the keys a
\* range loop has yet to visit) are the local variables of AddIndexes and
\* RemoveIndexes; slice (Query's terms), blogs and ret (the slice returned) are
\* those of Query.  terms (the words of the blog's own title, content and tags),
\* taken (the tokens RemoveIndexes took from the stream), partial (rank read the
\* index entries of a blog while an AddIndexes call was writing them) and failed (a
\* store operation of the call returned an error) are kept for the properties.
IdleCall ==
    [pc |-> "idle", blog_id |-> 0, terms |-> {}, frequency |-> <<>>, norm |-> Zero,
     totalBlogs |-> 0, weightRow |-> ZeroWeight, idf |-> ZeroWeight, todo |-> {},
     key |-> Token(Space), op |-> "", text |-> <<>>, slice |-> <<>>, blogs |-> <<>>,
     ret |-> <<>>, taken |-> 0, partial |-> FALSE, failed |-> FALSE]

\* ------------------------------------------------------------------ the store
\* Find(bson.M{"term": term}): the position of the first match, 0 if there is none
FindTerm(table, term) ==
    IF \E i \in DOMAIN table : table[i].term = term
    THEN CHOOSE i \in DOMAIN table :
            /\ table[i].term = term
            /\ \A j \in DOMAIN table : table[j].term = term => i <= j
    ELSE 0
\* Collection.Insert
Insert(table, doc) == Append(table, doc)
\* Collection.Update(bson.M{"term": term}, doc): doc carries no $-operator, so the
\* first match is replaced by doc; with no match nothing is written
Update(table, term, doc) ==
    LET i == FindTerm(table, term)
    IN  IF i = 0 THEN table ELSE [table EXCEPT ![i] = doc]

\* ------------------------------------------------------------------ indexer
euclidean_norm(frequency) ==
    FSqrt(SumOver([t \in DOMAIN frequency |-> FromInt(frequency[t] * frequency[t])],
                  DOMAIN frequency))
term_freq(occurences, normalization) == FDiv(FromInt(occurences), normalization)
inverse_document_freq(termBlogs, totalBlogs) == LogRatio(totalBlogs, termBlogs)
tf_idf(tf, idf) == FMul(tf, idf)

\* CountToken without the test for markup
CountTokenKeepsMarkup(frequency, token) ==
    IF IsSpace(token) THEN frequency
    ELSE IF token \in DOMAIN frequency THEN [frequency EXCEPT ![token] = @ + 1]
    ELSE frequency @@ (token :> 1)

\* one pass of the counting loop for one token
CountToken(frequency, token) ==
    IF IsSpace(token) \/ IsHTML(token) THEN frequency
    ELSE IF token \in DOMAIN frequency THEN [frequency EXCEPT ![token] = @ + 1]
    ELSE frequency @@ (token :> 1)

RECURSIVE CountLoop(_, _)
CountLoop(tokens, frequency) ==
    IF tokens = <<>> THEN frequency
    ELSE CountLoop(Tail(tokens), CountToken(frequency, Head(tokens)))

count_occurences(content) == CountLoop(SetText(content), <<>>)

\* Find(bson.M{"term": term}).One(&row): row is overwritten by the first match and
\* keeps its value when there is none
One(table, term, row) ==
    LET i == FindTerm(table, term) IN IF i = 0 THEN row ELSE Decode(table[i])

\* the write of one pass of updateIDF's loop, decided by weightRow
WriteWeight(table, weightRow, key, totalBlogs) ==
    IF weightRow.Term = ""
    THEN Insert(table, WeightDoc(GetText(key), 1, inverse_document_freq(1, totalBlogs)))
    ELSE LET termBlogs == weightRow.Total_blogs + 1
         IN  Update(table, GetText(key),
                    SetDoc(inverse_document_freq(termBlogs, totalBlogs), termBlogs))

\* one pass of updateIDF's loop for key: st = [table, weightRow]
UpdateTerm(st, key, totalBlogs) ==
    LET weightRow == One(st.table, GetText(key), st.weightRow)
    IN  [table |-> WriteWeight(st.table, weightRow, key, totalBlogs), weightRow |-> weightRow]

RECURSIVE UpdateLoop(_, _, _)
UpdateLoop(st, order, totalBlogs) ==
    IF order = <<>> THEN st
    ELSE UpdateLoop(UpdateTerm(st, Head(order), totalBlogs), Tail(order), totalBlogs)

\* updateIDF, ranging over frequency in the given order
updateIDF(table, order, totalBlogs) ==
    UpdateLoop([table |-> table, weightRow |-> ZeroWeight], order, totalBlogs).table

\* the Inverted_Index one pass of newIndexes' loop inserts
IndexEntry(idf, key, value, blogID, norm) ==
    LET tf == term_freq(value, norm)
    IN  [term |-> GetText(key), blog_id |-> blogID, tf |-> tf, tf_idf |-> tf_idf(tf, idf.Idf)]

\* one pass of newIndexes' loop for key: st = [table, idf]
IndexTerm(st, wTable, key, value, blogID, norm) ==
    LET idf == One(wTable, GetText(key), st.idf)
    IN  [table |-> Insert(st.table, IndexEntry(idf, key, value, blogID, norm)), idf |-> idf]

RECURSIVE IndexLoop(_, _, _, _, _, _)
IndexLoop(st, wTable, frequency, order, blogID, norm) ==
    IF order = <<>> THEN st
    ELSE IndexLoop(IndexTerm(st, wTable, Head(order), frequency[Head(order)], blogID, norm),
                   wTable, frequency, Tail(order), blogID, norm)

\* newIndexes that also recomputes the tf_idf of the entries the table already
\* holds for the keys of frequency, from the idf wTable holds now
newIndexesRefreshing(table, wTable, frequency, order, blogID, norm) ==
    LET keys == {GetText(k) : k \in DOMAIN frequency}
        old == [i \in DOMAIN table |->
                    IF table[i].term \in keys
                    THEN [table[i] EXCEPT
                            !.tf_idf = tf_idf(table[i].tf,
                                              One(wTable, table[i].term, ZeroWeight).Idf)]
                    ELSE table[i]]
    IN  IndexLoop([table |-> old, idf |-> ZeroWeight], wTable, frequency, order, blogID, norm).table

newIndexes(table, wTable, frequency, order, blogID, norm) ==
    IndexLoop([table |-> table, idf |-> ZeroWeight], wTable, frequency, order, blogID, norm).table

RECURSIVE JoinTags(_)
JoinTags(tags) == IF tags = <<>> THEN <<>> ELSE <<Space, Head(tags)>> \o JoinTags(Tail(tags))
\* blog.Title + " " + blog.Content + " " + tag ...
Assemble(blog) == blog.Title \o <<Space>> \o blog.Content \o JoinTags(blog.Tags)

\* For the record of calls (indexed): the words a blog's title, content and tags hold
BlogPieces(blog) ==
    {blog.Title[i] : i \in DOMAIN blog.Title} \cup {blog.Content[i] : i \in DOMAIN blog.Content}
        \cup {blog.Tags[i] : i \in DOMAIN blog.Tags}
DocTerms(blog) == BlogPieces(blog) \ {Space, Html}

\* no call is waiting to hand its result to the caller, and none is under way
Idle == last.op # "Query" /\ \A c \in DOMAIN call : call[c].pc = "idle"

AddIndexes(blog) ==
    /\ Idle
    /\ Len(indexed) < MaxCalls
    /\ LET frequency == count_occurences(Assemble(blog))
           norm == euclidean_norm(frequency)
       IN  /\ \E o1 \in Orders(DOMAIN frequency), o2 \in Orders(DOMAIN frequency) :
                LET wTable == updateIDF(weightTable, o1, Cardinality(blogTable))
                IN  /\ weightTable' = wTable
                    /\ termTable' = newIndexes(termTable, wTable, frequency, o2,
                                               blog.Blog_id, norm)
    /\ indexed' = Append(indexed, [op |-> "add", blog_id |-> blog.Blog_id,
                                   terms |-> DocTerms(blog)])
    /\ last' = [op |-> "AddIndexes", blog_id |-> blog.Blog_id]
    /\ tokenizer' = <<>>
    /\ UNCHANGED <<blogTable, driver, call>>

\* FindToken matching the stored term against the token's text
FindTokenByText(table, token) == FindTerm(table, GetText(token))

\* the term_weight documents whose term equals a tokenizer.Token: the stored term
\* is a string and the token is a struct, so there are none
FindToken(table, token) == 0

RECURSIVE RemoveLoop(_, _, _)
\* RemoveIndexes' loop over what is left of the tokenizer's stream
RemoveLoop(table, weightRow, tokens) ==
    IF tokens = <<>> THEN table
    ELSE LET i == FindToken(table, Head(tokens))
             row == IF i = 0 THEN weightRow ELSE Decode(table[i])
         IN  RemoveLoop(IF row.Total_blogs <= 1
                        THEN SelectSeq(table, LAMBDA d : FindToken(<<d>>, Head(tokens)) = 0)
                        ELSE table,
                        row, Tail(tokens))

\* RemoveIndexes reads only blog.Blog_id
RemoveIndexes(blog) ==
    /\ Idle
    /\ Len(indexed) < MaxCalls
    /\ weightTable' = RemoveLoop(weightTable, ZeroWeight, tokenizer)
    /\ tokenizer' = <<>>
    /\ termTable' = SelectSeq(termTable, LAMBDA e : e.blog_id # blog.Blog_id)
    /\ indexed' = Append(indexed, [op |-> "remove", blog_id |-> blog.Blog_id,
                                   terms |-> {}])
    /\ last' = [op |-> "RemoveIndexes", blog_id |-> blog.Blog_id]
    /\ UNCHANGED <<blogTable, driver, call>>

\* ------------------------------------------------------------------ query engine
\* one pass of Query's token loop: st = [termFound, terms]
QueryToken(st, token) ==
    IF GetText(token) \in st.termFound THEN st
    ELSE IF IsSpace(token) THEN st
    ELSE [termFound |-> st.termFound \cup {GetText(token)},
          terms |-> Append(st.terms, GetText(token))]

RECURSIVE QueryLoop(_, _)
QueryLoop(tokens, st) ==
    IF tokens = <<>> THEN st ELSE QueryLoop(Tail(tokens), QueryToken(st, Head(tokens)))

QueryTerms(keyword) == QueryLoop(SetText(keyword), [termFound |-> {}, terms |-> <<>>]).terms

Range(s) == {s[i] : i \in DOMAIN s}

RECURSIVE Distinct(_, _)
\* the distinct values of a sequence, in the order of their first occurrence
Distinct(s, seen) ==
    IF s = <<>> THEN <<>>
    ELSE IF Head(s) \in seen THEN Distinct(Tail(s), seen)
    ELSE <<Head(s)>> \o Distinct(Tail(s), seen \cup {Head(s)})

\* retrieve matching on the first query term alone
retrieveFirstTerm(terms) ==
    LET hits == SelectSeq(termTable, LAMBDA e : terms # <<>> /\ e.term = Head(terms))
    IN  Distinct([i \in DOMAIN hits |-> hits[i].blog_id], {})

\* retrieve without the filter on the term
retrieveAll(terms) == Distinct([i \in DOMAIN termTable |-> termTable[i].blog_id], {})

\* Find(bson.M{"term": bson.M{"$in": terms}}).Distinct("blog_id", &results)
retrieve(terms) ==
    LET hits == SelectSeq(termTable, LAMBDA e : e.term \in Range(terms))
    IN  Distinct([i \in DOMAIN hits |-> hits[i].blog_id], {})

\* one pass of queryRank's loop: st = [results, idf].  One(&idf) is handed a
\* float64, which the driver either fills from the document found or rejects;
\* with no document found, or a rejected target, idf keeps its value
RankTerm(st, term) ==
    LET i == FindTerm(weightTable, term)
        idf == IF i # 0 /\ driver.decodesScalar THEN weightTable[i].idf ELSE st.idf
    IN  [results |-> (term :> idf) @@ st.results, idf |-> idf]

RECURSIVE RankLoop(_, _)
RankLoop(terms, st) ==
    IF terms = <<>> THEN st ELSE RankLoop(Tail(terms), RankTerm(st, Head(terms)))

queryRank(terms) == RankLoop(terms, [results |-> <<>>, idf |-> Zero]).results

\* Find(bson.M{"$in": bson.M{"term": terms}, "blog_id": i}).All(&blogTerms): "$in"
\* is no top-level operator.  A server that rejects the filter returns an error and
\* All leaves blogTerms empty; one that skips it matches on blog_id alone
BlogTerms(terms, i) ==
    IF driver.skipsUnknownOperator
    THEN SelectSeq(termTable, LAMBDA e : e.blog_id = i)
    ELSE <<>>

RECURSIVE arrangeTerms(_)
\* later rows overwrite earlier ones of the same term
arrangeTerms(terms) ==
    IF terms = <<>> THEN <<>>
    ELSE LET n == Len(terms)
         IN  (terms[n].term :> terms[n].tf_idf) @@ arrangeTerms(SubSeq(terms, 1, n - 1))

crossProduct(query, blog) ==
    SumOver([key \in DOMAIN blog |->
                FMul(blog[key], IF key \in DOMAIN query THEN query[key] ELSE Zero)],
            DOMAIN blog)

magnitude(vector) ==
    FSqrt(SumOver([key \in DOMAIN vector |-> FMul(vector[key], vector[key])], DOMAIN vector))

cosineSimilarity(query, blog) ==
    FDiv(crossProduct(query, blog), FMul(magnitude(query), magnitude(blog)))

\* Similarities.Less on two elements
Less(a, b) == FLess(a.cosine, b.cosine)

RECURSIVE SinkDown(_, _)
\* insertionSort's inner loop: for j > a && data.Less(j, j-1) { data.Swap(j, j-1) }
SinkDown(s, j) ==
    IF j > 1 /\ Less(s[j], s[j - 1])
    THEN SinkDown([s EXCEPT ![j] = s[j - 1], ![j - 1] = s[j]], j - 1)
    ELSE s

RECURSIVE SortFrom(_, _)
SortFrom(s, i) == IF i > Len(s) THEN s ELSE SortFrom(SinkDown(s, i), i + 1)

\* sort.Sort(Similarities(results)): for the at most twelve elements of this
\* model, the standard library sorts by insertion
Sort(s) == SortFrom(s, 2)

\* rank's first loop: the Similarity of every blog, in the order of blogs
Similarities(terms, blogs, query) ==
    [n \in DOMAIN blogs |->
        [blog |-> blogs[n],
         cosine |-> cosineSimilarity(query, arrangeTerms(BlogTerms(terms, blogs[n])))]]

\* rank's last loop: the blog of every Similarity
BlogIDs(results) == [n \in DOMAIN results |-> results[n].blog]

\* What one Query call computes, step by step: each step hands the values computed
\* so far to the next.  Ranked is the record of the call: its terms, the blogs
\* retrieved, the query vector, the Similarity of each blog before (scores) and
\* after the sort (results), and ret, the slice returned.
Ranked(terms, blogs, query, scores, results) ==
    [op |-> "Query", terms |-> terms, blogs |-> blogs, query |-> query,
     scores |-> scores, results |-> results, ret |-> BlogIDs(results)]
Scored(terms, blogs, query, scores) == Ranked(terms, blogs, query, scores, Sort(scores))
\* rank, given the query vector queryRank returned
rank(terms, blogs, query) == Scored(terms, blogs, query, Similarities(terms, blogs, query))
\* Query from the terms of its text on
Retrieve(terms) == rank(terms, retrieve(terms), queryRank(terms))

\* Query that also registers, with a count of 0, every term of its text that has no
\* record in the term statistics store
QueryRegisteringTerms(keyword) ==
    /\ Idle
    /\ last' = Retrieve(QueryTerms(keyword))
    /\ tokenizer' = <<>>
    /\ weightTable' =
            LET new == SelectSeq(QueryTerms(keyword), LAMBDA t : FindTerm(weightTable, t) = 0)
            IN  weightTable \o [i \in DOMAIN new |-> WeightDoc(new[i], 0, Zero)]
    /\ UNCHANGED <<termTable, blogTable, driver, indexed, call>>

\* Query up to its return: last records what the call computed and ret, the
\* slice it returns
Query(keyword) ==
    /\ Idle
    /\ last' = Retrieve(QueryTerms(keyword))
    /\ tokenizer' = <<>>
    /\ UNCHANGED <<weightTable, termTable, blogTable, driver, indexed, call>>

\* the caller takes the slice Query returned
QueryReturn ==
    /\ last.op = "Query"
    /\ last' = [op |-> "Return"]
    /\ UNCHANGED <<weightTable, termTable, blogTable, tokenizer, driver, indexed, call>>

\* ------------------------------------------------------------------ environment
\* a post stored in the blog collection by the application
InsertPost(id) ==
    /\ Idle
    /\ id = Cardinality(blogTable) + 1
    /\ blogTable' = blogTable \cup {id}
    /\ last' = [op |-> "InsertPost", blog_id |-> id]
    /\ UNCHANGED <<weightTable, termTable, tokenizer, driver, indexed, call>>

Init ==
    /\ weightTable = <<>>
    /\ termTable = <<>>
    /\ blogTable = {}
    /\ tokenizer = <<>>
    /\ driver \in [decodesScalar : BOOLEAN, skipsUnknownOperator : BOOLEAN]
    /\ indexed = <<>>
    /\ last = [op |-> "Setup"]
    /\ call = [c \in Callers |-> IdleCall]

\* the blogs handed to the indexer are posts of the blog collection
Named == {b \in Blogs : b.Blog_id \in blogTable}

Next ==
    \/ \E blog \in Named : AddIndexes(blog)
    \/ \E blog \in {b \in Named : b.Title = <<"cat">> /\ b.Content = <<>> /\ b.Tags = <<>>} :
            RemoveIndexes(blog)
    \/ \E keyword \in Keywords : Query(keyword)
    \/ QueryReturn
    \/ \E id \in BlogIds : InsertPost(id)

Spec == Init /\ [][Next]_vars

\* ------------------------------------------------------------------ concurrent callers
\* AddIndexes, one tokenizer call or store operation at a time, by caller c.
\* call[c] holds the call's local variables and pc, the operation it is to do next.

\* AddIndexes up to count_occurences' SetText
AddBegin(c, blog) ==
    /\ call[c].pc = "idle"
    /\ tokenizer' = SetText(Assemble(blog))
    /\ call' = [call EXCEPT ![c] = [IdleCall EXCEPT !.pc = "count", !.blog_id = blog.Blog_id,
                                                    !.terms = DocTerms(blog),
                                                    !.op = "AddIndexes",
                                                    !.text = Assemble(blog)]]
    /\ UNCHANGED <<weightTable, termTable, blogTable, driver, indexed, last>>

\* count_occurences' loop: HasNext is true, Next and the counting of the token
AddCount(c) ==
    /\ call[c].pc = "count"
    /\ tokenizer # <<>>
    /\ tokenizer' = Tail(tokenizer)
    /\ call' = [call EXCEPT ![c].frequency = CountToken(@, Head(tokenizer))]
    /\ UNCHANGED <<weightTable, termTable, blogTable, driver, indexed, last>>

\* HasNext is false: euclidean_norm, then updateIDF's count of the blogs
AddNorm(c) ==
    /\ call[c].pc = "count"
    /\ tokenizer = <<>>
    /\ call' = [call EXCEPT ![c].norm = euclidean_norm(call[c].frequency),
                            ![c].totalBlogs = Cardinality(blogTable),
                            ![c].todo = DOMAIN call[c].frequency,
                            ![c].pc = IF call[c].frequency = <<>> THEN "done" ELSE "find"]
    /\ indexed' = IF call[c].frequency = <<>>
                  THEN Append(indexed, [op |-> "add", blog_id |-> call[c].blog_id,
                                        terms |-> call[c].terms])
                  ELSE indexed
    /\ UNCHANGED <<weightTable, termTable, blogTable, tokenizer, driver, last>>

\* updateIDF's loop: the Find of the next key
AddFind(c, key) ==
    /\ call[c].pc = "find"
    /\ key \in call[c].todo
    /\ call' = [call EXCEPT ![c].weightRow = One(weightTable, GetText(key), @),
                            ![c].key = key,
                            ![c].pc = "write"]
    /\ UNCHANGED <<weightTable, termTable, blogTable, tokenizer, driver, indexed, last>>

\* updateIDF's loop: the Insert or Update of the key found; after the last key,
\* newIndexes starts
AddWrite(c) ==
    /\ call[c].pc = "write"
    /\ weightTable' = WriteWeight(weightTable, call[c].weightRow, call[c].key, call[c].totalBlogs)
    /\ call' = [call EXCEPT ![c].todo = IF @ = {call[c].key} THEN DOMAIN call[c].frequency
                                                              ELSE @ \ {call[c].key},
                            ![c].pc = IF call[c].todo = {call[c].key} THEN "lookup" ELSE "find"]
    /\ UNCHANGED <<termTable, blogTable, tokenizer, driver, indexed, last>>

\* newIndexes' loop: the Find of the next key
AddLookup(c, key) ==
    /\ call[c].pc = "lookup"
    /\ key \in call[c].todo
    /\ call' = [call EXCEPT ![c].idf = One(weightTable, GetText(key), @),
                            ![c].key = key,
                            ![c].pc = "insert"]
    /\ UNCHANGED <<weightTable, termTable, blogTable, tokenizer, driver, indexed, last>>

\* newIndexes' loop: the Insert of the key's entry; after the last key, the call returns
AddInsert(c) ==
    /\ call[c].pc = "insert"
    /\ termTable' = Insert(termTable,
                           IndexEntry(call[c].idf, call[c].key, call[c].frequency[call[c].key],
                                      call[c].blog_id, call[c].norm))
    /\ call' = [call EXCEPT ![c].todo = @ \ {call[c].key},
                            ![c].pc = IF call[c].todo = {call[c].key} THEN "done" ELSE "lookup"]
    /\ indexed' = IF call[c].todo = {call[c].key}
                  THEN Append(indexed, [op |-> "add", blog_id |-> call[c].blog_id,
                                        terms |-> call[c].terms])
                  ELSE indexed
    /\ UNCHANGED <<weightTable, blogTable, tokenizer, driver, last>>

\* two callers, each indexing its own stored post (one without tags) once, on
\* empty indexes
InitConc ==
    /\ weightTable = <<>>
    /\ termTable = <<>>
    /\ blogTable = Callers
    /\ tokenizer = <<>>
    /\ driver \in [decodesScalar : BOOLEAN, skipsUnknownOperator : BOOLEAN]
    /\ indexed = <<>>
    /\ last = [op |-> "Setup"]
    /\ call = [c \in Callers |-> IdleCall]

NextConc ==
    \E c \in Callers :
        \/ \E blog \in {b \in Blogs : b.Blog_id = c /\ b.Tags = <<>>} : AddBegin(c, blog)
        \/ AddCount(c)
        \/ AddNorm(c)
        \/ \E key \in call[c].todo : AddFind(c, key)
        \/ AddWrite(c)
        \/ \E key \in call[c].todo : AddLookup(c, key)
        \/ AddInsert(c)

SpecConc == InitConc /\ [][NextConc]_vars

\* Query, one tokenizer call at a time, by caller c: up to SetText
QueryBegin(c, keyword) ==
    /\ call[c].pc = "idle"
    /\ tokenizer' = SetText(keyword)
    /\ call' = [call EXCEPT ![c] = [IdleCall EXCEPT !.pc = "scan", !.op = "Query",
                                                    !.text = keyword]]
    /\ UNCHANGED <<weightTable, termTable, blogTable, driver, indexed, last>>

\* Query's loop: HasNext is true, Next and the pass of the loop for the token
QueryScan(c) ==
    /\ call[c].pc = "scan"
    /\ tokenizer # <<>>
    /\ tokenizer' = Tail(tokenizer)
    /\ call' = [call EXCEPT ![c].slice =
                    QueryToken([termFound |-> Range(@), terms |-> @], Head(tokenizer)).terms]
    /\ UNCHANGED <<weightTable, termTable, blogTable, driver, indexed, last>>

\* HasNext is false: retrieve
QueryFetch(c) ==
    /\ call[c].pc = "scan"
    /\ tokenizer = <<>>
    /\ call' = [call EXCEPT ![c].blogs = retrieve(call[c].slice), ![c].pc = "rank"]
    /\ UNCHANGED <<weightTable, termTable, blogTable, tokenizer, driver, indexed, last>>

\* some AddIndexes call has updated the statistics of its blog's terms and has
\* yet to insert some of the blog's index entries, the blog being one of blogs
PartlyIndexed(blogs) ==
    \E d \in Callers :
        /\ call[d].op = "AddIndexes"
        /\ call[d].pc \in {"lookup", "insert"}
        /\ call[d].blog_id \in Range(blogs)

\* rank, its reads of the two collections taken together, and Query's return
QueryRank(c) ==
    /\ call[c].pc = "rank"
    /\ call' = [call EXCEPT
                    ![c].ret = rank(call[c].slice, call[c].blogs, queryRank(call[c].slice)).ret,
                    ![c].partial = PartlyIndexed(call[c].blogs),
                    ![c].pc = "done"]
    /\ UNCHANGED <<weightTable, termTable, blogTable, tokenizer, driver, indexed, last>>

\* RemoveIndexes by caller c, up to its loop: the tokenizer is not given the
\* blog's text
RemoveBegin(c, blog) ==
    /\ call[c].pc = "idle"
    /\ call' = [call EXCEPT ![c] = [IdleCall EXCEPT !.pc = "drain", !.op = "RemoveIndexes",
                                                    !.blog_id = blog.Blog_id,
                                                    !.terms = DocTerms(blog)]]
    /\ UNCHANGED <<weightTable, termTable, blogTable, tokenizer, driver, indexed, last>>

\* weightRow after the Find of one pass of RemoveIndexes' loop
RemoveRow(table, weightRow, token) ==
    LET i == FindToken(table, token) IN IF i = 0 THEN weightRow ELSE Decode(table[i])

\* RemoveIndexes' loop: HasNext is true, Next and the pass of the loop for the token
RemoveScan(c) ==
    /\ call[c].pc = "drain"
    /\ tokenizer # <<>>
    /\ tokenizer' = Tail(tokenizer)
    /\ weightTable' = RemoveLoop(weightTable, call[c].weightRow, <<Head(tokenizer)>>)
    /\ call' = [call EXCEPT
                    ![c].weightRow = RemoveRow(weightTable, @, Head(tokenizer)),
                    ![c].taken = @ + 1]
    /\ UNCHANGED <<termTable, blogTable, driver, indexed, last>>

\* HasNext is false: the RemoveAll of the blog's index entries, and the return
RemoveEntries(c) ==
    /\ call[c].pc = "drain"
    /\ tokenizer = <<>>
    /\ termTable' = SelectSeq(termTable, LAMBDA e : e.blog_id # call[c].blog_id)
    /\ call' = [call EXCEPT ![c].pc = "done"]
    /\ indexed' = Append(indexed, [op |-> "remove", blog_id |-> call[c].blog_id,
                                   terms |-> {}])
    /\ UNCHANGED <<weightTable, blogTable, tokenizer, driver, last>>

\* the posts of the blog collection as the callers of SpecShared pass them
Post1 == {b \in Blogs : b.Blog_id = 1 /\ b.Content = <<>> /\ b.Tags = <<>>}
Post2 == {b \in Blogs : b.Blog_id = 2 /\ b.Tags = <<>>}

\* Two stored posts, the first of them indexed.  last keeps, for every query
\* text, what Query returns on these stores.
InitShared ==
    /\ blogTable = BlogIds
    /\ \E blog \in Post1 :
          LET frequency == count_occurences(Assemble(blog))
          IN  \E o \in Orders(DOMAIN frequency) :
                /\ weightTable = updateIDF(<<>>, o, Cardinality(BlogIds))
                /\ termTable = newIndexes(<<>>, weightTable, frequency, o, blog.Blog_id,
                                          euclidean_norm(frequency))
                /\ indexed = <<[op |-> "add", blog_id |-> blog.Blog_id,
                                terms |-> DocTerms(blog)]>>
    /\ tokenizer = <<>>
    /\ driver \in [decodesScalar : BOOLEAN, skipsUnknownOperator : BOOLEAN]
    /\ last = [op |-> "Setup", ret |-> [k \in Keywords |-> Retrieve(QueryTerms(k)).ret]]
    /\ call = [c \in Callers |-> IdleCall]

\* caller 1 indexes the second post or asks a query, while caller 2 asks a query
\* or removes the indexes of a post
NextShared ==
    \/ \E blog \in Post2 : AddBegin(1, blog)
    \/ AddCount(1)
    \/ AddNorm(1)
    \/ \E key \in call[1].todo : AddFind(1, key)
    \/ AddWrite(1)
    \/ \E key \in call[1].todo : AddLookup(1, key)
    \/ AddInsert(1)
    \/ \E c \in Callers, keyword \in Keywords : QueryBegin(c, keyword)
    \/ \E c \in Callers : QueryScan(c)
    \/ \E c \in Callers : QueryFetch(c)
    \/ \E c \in Callers : QueryRank(c)
    \/ \E blog \in {b \in Post1 : DocTerms(b) = indexed[1].terms}
                    \cup {b \in Post2 : b.Content = <<>>} : RemoveBegin(2, blog)
    \/ RemoveScan(2)
    \/ RemoveEntries(2)

SpecShared == InitShared /\ [][NextShared]_vars

\* ------------------------------------------------------------------ store failures
\* A store operation that cannot complete returns an error and writes nothing; One,
\* All and Distinct leave their target as it was.  The code drops every such
\* error, so the call goes on as the steps below say.

\* AddNorm, Count returning an error: totalBlogs is 0
AddNormFails(c) ==
    /\ call[c].pc = "count"
    /\ tokenizer = <<>>
    /\ call' = [call EXCEPT ![c].norm = euclidean_norm(call[c].frequency),
                            ![c].totalBlogs = 0,
                            ![c].todo = DOMAIN call[c].frequency,
                            ![c].pc = IF call[c].frequency = <<>> THEN "done" ELSE "find",
                            ![c].failed = TRUE]
    /\ indexed' = IF call[c].frequency = <<>>
                  THEN Append(indexed, [op |-> "add", blog_id |-> call[c].blog_id,
                                        terms |-> call[c].terms])
                  ELSE indexed
    /\ UNCHANGED <<weightTable, termTable, blogTable, tokenizer, driver, last>>

\* AddFind, One returning an error: weightRow keeps its value
AddFindFails(c, key) ==
    /\ call[c].pc = "find"
    /\ key \in call[c].todo
    /\ call' = [call EXCEPT ![c].key = key, ![c].pc = "write", ![c].failed = TRUE]
    /\ UNCHANGED <<weightTable, termTable, blogTable, tokenizer, driver, indexed, last>>

\* AddWrite, Insert or Update returning an error
AddWriteFails(c) ==
    /\ call[c].pc = "write"
    /\ call' = [call EXCEPT ![c].todo = IF @ = {call[c].key} THEN DOMAIN call[c].frequency
                                                              ELSE @ \ {call[c].key},
                            ![c].pc = IF call[c].todo = {call[c].key} THEN "lookup" ELSE "find",
                            ![c].failed = TRUE]
    /\ UNCHANGED <<weightTable, termTable, blogTable, tokenizer, driver, indexed, last>>

\* AddLookup, One returning an error: idf keeps its value
AddLookupFails(c, key) ==
    /\ call[c].pc = "lookup"
    /\ key \in call[c].todo
    /\ call' = [call EXCEPT ![c].key = key, ![c].pc = "insert", ![c].failed = TRUE]
    /\ UNCHANGED <<weightTable, termTable, blogTable, tokenizer, driver, indexed, last>>

\* AddInsert, Insert returning an error
AddInsertFails(c) ==
    /\ call[c].pc = "insert"
    /\ call' = [call EXCEPT ![c].todo = @ \ {call[c].key},
                            ![c].pc = IF call[c].todo = {call[c].key} THEN "done" ELSE "lookup",
                            ![c].failed = TRUE]
    /\ indexed' = IF call[c].todo = {call[c].key}
                  THEN Append(indexed, [op |-> "add", blog_id |-> call[c].blog_id,
                                        terms |-> call[c].terms])
                  ELSE indexed
    /\ UNCHANGED <<weightTable, termTable, blogTable, tokenizer, driver, last>>

\* QueryFetch, Distinct returning an error: results stays the empty slice
QueryFetchFails(c) ==
    /\ call[c].pc = "scan"
    /\ tokenizer = <<>>
    /\ call' = [call EXCEPT ![c].blogs = <<>>, ![c].pc = "rank", ![c].failed = TRUE]
    /\ UNCHANGED <<weightTable, termTable, blogTable, tokenizer, driver, indexed, last>>

\* QueryRank, every One and All returning an error: each term's idf stays 0.0 and
\* each blog's blogTerms stays empty
QueryRankFails(c) ==
    /\ call[c].pc = "rank"
    /\ call[c].slice # <<>> \/ call[c].blogs # <<>>
    /\ call' = [call EXCEPT
                    ![c].ret =
                        LET query == [t \in Range(call[c].slice) |-> Zero]
                        IN  BlogIDs(Sort([n \in DOMAIN call[c].blogs |->
                                            [blog |-> call[c].blogs[n],
                                             cosine |-> cosineSimilarity(query,
                                                                         arrangeTerms(<<>>))]])),
                    ![c].pc = "done",
                    ![c].failed = TRUE]
    /\ UNCHANGED <<weightTable, termTable, blogTable, tokenizer, driver, indexed, last>>

\* one caller indexes the second post or asks a query, on a store any operation of
\* which may fail
NextFail ==
    \/ \E blog \in Post2 : AddBegin(1, blog)
    \/ AddCount(1)
    \/ AddNorm(1)
    \/ AddNormFails(1)
    \/ \E key \in call[1].todo : AddFind(1, key)
    \/ \E key \in call[1].todo : AddFindFails(1, key)
    \/ AddWrite(1)
    \/ AddWriteFails(1)
    \/ \E key \in call[1].todo : AddLookup(1, key)
    \/ \E key \in call[1].todo : AddLookupFails(1, key)
    \/ AddInsert(1)
    \/ AddInsertFails(1)
    \/ \E keyword \in Keywords : QueryBegin(1, keyword)
    \/ QueryScan(1)
    \/ QueryFetch(1)
    \/ QueryFetchFails(1)
    \/ QueryRank(1)
    \/ QueryRankFails(1)

SpecFail == InitShared /\ [][NextFail]_vars

\* ------------------------------------------------------------------ properties
\* the calls so far are AddIndexes calls, one per blog
OncePerDoc ==
    /\ \A i \in DOMAIN indexed : indexed[i].op = "add"
    /\ \A i, j \in DOMAIN indexed : i # j => indexed[i].blog_id # indexed[j].blog_id
\* the AddIndexes calls whose document holds term t
Containing(t) == {i \in DOMAIN indexed : indexed[i].op = "add" /\ t \in indexed[i].terms}
\* the term_weight documents of term t
WeightRows(t) == {i \in DOMAIN weightTable : weightTable[i].term = t}
\* the inverted_index documents of term t and blog id
IndexRows(t, id) == {i \in DOMAIN termTable : termTable[i].term = t /\ termTable[i].blog_id = id}

\* C1: once every document of a corpus has been indexed once, a term has a
\* TermStatistic record exactly when some indexed document holds it, and the
\* record's total_blogs is the number of indexed documents holding it.
C1_DocumentFrequency ==
    OncePerDoc =>
        \A t \in Pieces :
            /\ (WeightRows(t) # {}) <=> (Containing(t) # {})
            /\ \A i \in WeightRows(t) : weightTable[i].total_blogs = Cardinality(Containing(t))

\* the AddIndexes calls whose index entries no later RemoveIndexes took away
Standing ==
    {i \in DOMAIN indexed :
        /\ indexed[i].op = "add"
        /\ \A j \in DOMAIN indexed :
              j > i => ~(indexed[j].op = "remove" /\ indexed[j].blog_id = indexed[i].blog_id)}
\* term t occurs in the document of call i and in no document of another blog
UniqueTo(t, i) ==
    /\ t \in indexed[i].terms
    /\ \A j \in Containing(t) : indexed[j].blog_id = indexed[i].blog_id

\* C2: a Query whose text holds a term unique to an indexed document D returns D.
C2_UniqueTermFindsDocument ==
    last.op = "Query" =>
        \A i \in Standing :
            (\E n \in DOMAIN last.terms : UniqueTo(last.terms[n], i))
                => \E n \in DOMAIN last.ret : last.ret[n] = indexed[i].blog_id
\* a Query that returns two blogs, one of them for a term only it holds
C2_Witness ==
    /\ last.op = "Query"
    /\ Len(last.ret) = 2
    /\ \E i \in Standing : \E n \in DOMAIN last.terms : UniqueTo(last.terms[n], i)

\* C3: Query returns the blogs by cosine descending: of two returned blogs with
\* numeric scores, the earlier one's score is not the smaller.
C3_DescendingScores ==
    last.op = "Query" =>
        \A i, j \in DOMAIN last.results :
            i < j => ~FLess(last.results[i].cosine, last.results[j].cosine)

\* C4: a Query none of whose terms has an index entry returns the empty sequence.
C4_NoMatchIsEmpty ==
    (last.op = "Query" /\ \A n \in DOMAIN last.terms, id \in BlogIds :
                              IndexRows(last.terms[n], id) = {})
        => last.ret = <<>>
\* such a Query, with terms, on a corpus that has index entries
C4_Witness ==
    /\ last.op = "Query"
    /\ last.terms # <<>>
    /\ termTable # <<>>
    /\ \A n \in DOMAIN last.terms, id \in BlogIds : IndexRows(last.terms[n], id) = {}
    /\ last.ret = <<>>

\* C5: two AddIndexes calls on the same document, from empty stores, leave each
\* of its terms with total_blogs = 2 and with two index entries for the blog.
C5_DoubleCount ==
    (Len(indexed) = 2 /\ indexed[1].op = "add" /\ indexed[2] = indexed[1]) =>
        \A t \in indexed[1].terms :
            /\ \E i \in WeightRows(t) : weightTable[i].total_blogs = 2
            /\ Cardinality(IndexRows(t, indexed[1].blog_id)) = 2

\* C6: while every blog is indexed at most once, the index holds one entry for
\* every word of every indexed document, and no other entry.
C6_OneEntryPerTerm ==
    OncePerDoc =>
        \A t \in Pieces, id \in BlogIds :
            Cardinality(IndexRows(t, id)) =
                IF \E i \in Containing(t) : indexed[i].blog_id = id THEN 1 ELSE 0
\* two documents indexed once each that share a word, one of them of two words
C6_Witness ==
    /\ OncePerDoc
    /\ Len(indexed) = 2
    /\ \E i \in DOMAIN indexed : Cardinality(indexed[i].terms) = 2
    /\ \E t \in Words : Cardinality(Containing(t)) = 2

\* C7: every document of the term statistics store has total_blogs >= 1 and the
\* idf computed from that total_blogs and a count of the blogs.
C7_CountAndIdfAgree ==
    \A i \in DOMAIN weightTable :
        /\ weightTable[i].total_blogs >= 1
        /\ \E n \in 0..MaxBlogs :
              weightTable[i].idf = inverse_document_freq(weightTable[i].total_blogs, n)

\* C8: in the query vector, a term that has no TermStatistic record has idf 0.
C8_AbsentTermIsZero ==
    last.op = "Query" =>
        \A n \in DOMAIN last.terms :
            WeightRows(last.terms[n]) = {} => last.query[last.terms[n]] = Zero

\* the vector Query scores blog against, and whether blog's cosine is degenerate
BlogVector(blog) == arrangeTerms(BlogTerms(last.terms, blog))
Degenerate(blog) == magnitude(last.query) = Zero \/ magnitude(BlogVector(blog)) = Zero

\* C9: a blog whose vector, or the query's, has magnitude zero scores 0 and is
\* returned after every blog with a positive score.
C9_DegenerateScoresZero ==
    last.op = "Query" =>
        \A i \in DOMAIN last.results :
            Degenerate(last.results[i].blog) =>
                /\ last.results[i].cosine = Zero
                /\ \A j \in DOMAIN last.results :
                      FLess(Zero, last.results[j].cosine) => j < i

\* both concurrent calls have returned, each having counted its own document's words
BothDone ==
    \A c \in Callers :
        /\ call[c].pc = "done"
        /\ {GetText(k) : k \in DOMAIN call[c].frequency} = call[c].terms

\* C10: after two concurrent AddIndexes calls on empty indexes, every
\* TermStatistic record of a term T of both documents has total_blogs = 2 and the
\* idf of that count.
C10_NoLostUpdate ==
    BothDone =>
        \A t \in call[1].terms \cap call[2].terms :
            \A i \in WeightRows(t) :
                /\ weightTable[i].total_blogs = 2
                /\ weightTable[i].idf = inverse_document_freq(2, Cardinality(blogTable))

\* C12: RemoveIndexes(D) on a document D indexed before, the only one indexed,
\* leaves no index entry of D and no TermStatistic record of a term of D.
C12_RemoveUndoesIndexing ==
    (/\ Len(indexed) = 2
     /\ indexed[1].op = "add"
     /\ indexed[2].op = "remove"
     /\ indexed[2].blog_id = indexed[1].blog_id) =>
        /\ \A t \in Pieces : IndexRows(t, indexed[1].blog_id) = {}
        /\ \A t \in indexed[1].terms : WeightRows(t) = {}

\* C14: a Query step leaves both stores as they were, and what a Query returned is
\* what a Query of the same terms returns on the stores it left.
C14_QueryIsPureRead ==
    [][/\ last'.op = "Query" => (weightTable' = weightTable /\ termTable' = termTable)
       /\ last.op = "Query" => last.ret = Retrieve(last.terms).ret]_vars
\* a Query, asked after two documents were indexed, that returns both
C14_Witness ==
    /\ last.op = "Query"
    /\ Len(indexed) = 2
    /\ Cardinality(Range(last.ret)) = 2

\* C15: an AddIndexes step leaves every index entry written before it in place,
\* with its term, blog_id, tf and tf_idf.
C15_EarlierEntriesKept ==
    [][last'.op = "AddIndexes" =>
          /\ Len(termTable') > Len(termTable)
          /\ \A i \in DOMAIN termTable : termTable'[i] = termTable[i]]_vars
\* two blogs indexed once each that share a term, whose statistics the second
\* call wrote anew, the first blog's entry for the term still there
C15_Witness ==
    /\ OncePerDoc
    /\ Len(indexed) = 2
    /\ last.op = "AddIndexes"
    /\ \E t \in Words :
          /\ Cardinality(Containing(t)) = 2
          /\ IndexRows(t, indexed[1].blog_id) # {}
    /\ \E i \in DOMAIN weightTable : weightTable[i].set # <<>>

\* C16: of two returned blogs with the same numeric score, the one returned first
\* has the smaller identifier.
C16_TiesByIdentifier ==
    last.op = "Query" =>
        \A i, j \in DOMAIN last.results :
            (/\ i < j
             /\ ~IsNaN(last.results[i].cosine)
             /\ last.results[i].cosine = last.results[j].cosine)
                => last.results[i].blog < last.results[j].blog

\* C18: every index entry an AddIndexes call wrote for a term t has
\* tf_idf = tf * idf, idf the one a TermStatistic record of t holds after the call.
C18_OwnIdf ==
    (last.op = "AddIndexes" /\ OncePerDoc) =>
        \A i \in DOMAIN termTable :
            termTable[i].blog_id = last.blog_id =>
                \E r \in WeightRows(termTable[i].term) :
                    termTable[i].tf_idf = tf_idf(termTable[i].tf, weightTable[r].idf)

\* the index entries of blog whose term is a term of the Query
OwnQueryRows(blog) ==
    SelectSeq(termTable, LAMBDA e : e.blog_id = blog /\ e.term \in Range(last.terms))

\* C19: the vector a returned blog was scored by maps the query terms the blog has
\* index entries for, and no other term, to the tf_idf of those entries.
C19_ExactWeightVector ==
    last.op = "Query" =>
        \A n \in DOMAIN last.blogs :
            BlogVector(last.blogs[n]) = arrangeTerms(OwnQueryRows(last.blogs[n]))

\* C11: a Query that ran while an AddIndexes call ran, each of the two having read
\* the tokens of its own text, returns what a Query of its text returns on the
\* stores before the AddIndexes call or on the stores after it, and has not ranked
\* the blog by a part of its index entries.
C11_BeforeOrAfter ==
    (/\ call[1].pc = "done"
     /\ call[1].op = "AddIndexes"
     /\ call[1].frequency = count_occurences(call[1].text)
     /\ call[2].pc = "done"
     /\ call[2].op = "Query"
     /\ call[2].slice = QueryTerms(call[2].text)) =>
        /\ call[2].ret \in {last.ret[call[2].text], Retrieve(QueryTerms(call[2].text)).ret}
        /\ ~call[2].partial

C20_OwnTokens ==
    \A c \in Callers :
        call[c].pc = "done" =>
            /\ call[c].op = "AddIndexes" => call[c].frequency = count_occurences(call[c].text)
            /\ call[c].op = "Query" => call[c].slice = QueryTerms(call[c].text)

\* C13: a call that has returned as AddIndexes and Query return, with nothing to
\* tell a failure by, is a call none of whose store operations failed.
C13_FailurePropagated ==
    \A c \in Callers : call[c].pc = "done" => ~call[c].failed
====
